---- MODULE Spec2Model ----
(***************************************************************************)
(* Model of the fiber-autopilot agent (src/src/agent.rs): the per-cycle    *)
(* routine run_once / open_channels, the connect-and-open action execute,  *)
(* the sampler choice_n (src/src/utils.rs), the token matching of         *)
(* src/src/config.rs, the graph builder (src/src/graph.rs) and the         *)
(* centrality scorer (src/src/heuristics/centrality.rs).                   *)
(*                                                                         *)
(* Option<T> values are sequences: <<>> is None, <<v>> is Some(v).         *)
(* Scores (f64 in the code) are small non-negative integers, on which the  *)
(* arithmetic of the sampler is exact.                                     *)
(***************************************************************************)
EXTENDS Integers, Sequences, FiniteSets, TLC

\* ------------------------------------------------------------------ bounds

\* number of remote peers of the modelled network
NumPeers == 3
\* largest number of channels the local-channel listing returns
MaxLocal == 2

\* ------------------------------------------------------------- identities

\* the agent's own identity (Agent::self_id)
Self == 0
Peers == 1..NumPeers
AllIds == Peers \cup {Self}

None == <<>>
Some(v) == <<v>>

Min(a, b) == IF a <= b THEN a ELSE b

\* usize::saturating_sub
SaturatingSub(a, b) == IF a >= b THEN a - b ELSE 0

\* ------------------------------------------------------------------ config

CkbToken == [type |-> "Ckb"]
UdtToken == [type |-> "Udt", script |-> "T"]

\* TokenType::is_token: does the optional script denote the agent's token?
is_token(token, script) ==
    IF token.type = "Ckb" THEN script = None ELSE script = Some(token.script)

\* MultiAddr: a host part and an optional /p2p/<peer id> component
MultiAddr(h, p) == [host |-> h, p2p |-> p]
\* an external address whose /p2p/ component names peer p
Addr(p) == MultiAddr("x", Some(p))
\* an external address without a /p2p/ component
AddrNoP2p == MultiAddr("y", None)

\* get_peer_id_from_addr: the peer id after the "p2p" component, if any
get_peer_id_from_addr(addr) == addr.p2p

\* the hard per-cycle cap of run_once
MaxPerCycle == 20

Cfg(tok, ext, mcn, mp, lo, hi) ==
    [token |-> tok, external_nodes |-> ext, max_chan_num |-> mcn,
     max_pending |-> mp, min_chan_funds |-> lo, max_chan_funds |-> hi]

\* the agent configurations explored (AgentConfig)
Configs ==
    { Cfg(CkbToken, <<>>, 5, 4, 30, 40),
      Cfg(CkbToken, <<Addr(2), Addr(2), AddrNoP2p, Addr(Self)>>, 3, 2, 30, 40),
      Cfg(UdtToken, <<Addr(1), Addr(1)>>, 3, 3, 0, 40),
      Cfg(UdtToken, <<Addr(NumPeers)>>, 2, 1, 30, 40) }

\* ------------------------------------------------------------- environment

\* NodeInfo records the graph source can return for one node
EligibleNode ==
    [addresses |-> <<MultiAddr("a", None)>>, auto_accept_min_ckb_funding_amount |-> 10,
     udt_cfg_infos |-> << [script |-> "T", auto_accept_amount |-> Some(10)] >>]
NoAddrNode ==
    [addresses |-> <<>>, auto_accept_min_ckb_funding_amount |-> 10,
     udt_cfg_infos |-> << [script |-> "T", auto_accept_amount |-> Some(10)] >>]
HighMinNode ==
    [addresses |-> <<MultiAddr("a", None), MultiAddr("b", None)>>, auto_accept_min_ckb_funding_amount |-> 35,
     udt_cfg_infos |-> << [script |-> "U", auto_accept_amount |-> Some(10)],
                          [script |-> "T", auto_accept_amount |-> None],
                          [script |-> "T", auto_accept_amount |-> Some(35)] >>]
NoUdtNode ==
    [addresses |-> <<MultiAddr("a", None)>>, auto_accept_min_ckb_funding_amount |-> 10,
     udt_cfg_infos |-> << [script |-> "U", auto_accept_amount |-> Some(10)],
                          [script |-> "T", auto_accept_amount |-> None] >>]

NodeKinds == <<EligibleNode, NoAddrNode, HighMinNode, NoUdtNode>>

\* graph snapshots: the node list as a map identity -> Option<NodeInfo>; the
\* agent's own node is always listed
AllCkbEligible == [p \in AllIds |-> IF p <= 1 THEN Some(EligibleNode) ELSE Some(NoUdtNode)]
Rotated(k) ==
    [p \in AllIds |->
        IF p = Self THEN Some(EligibleNode)
        ELSE IF (p + k) % 5 = 0 THEN None
        ELSE Some(NodeKinds[(p + k) % 5])]
GraphSnapshots == {AllCkbEligible} \cup {Rotated(k) : k \in 0..2}

\* balances get_balance can return
Balances == {20, 40, 70, 100}

\* local channel records: the peer and the funding_udt_type_script
LocalChannel(p, s) == [peer_id |-> p, funding_udt_type_script |-> s]
LocalChannelRecords == {LocalChannel(p, s) : p \in Peers, s \in {None, Some("T")}}
LocalListings == {L \in SUBSET LocalChannelRecords : Cardinality(L) <= MaxLocal}

\* scores a heuristic can give a node
ScoreVals == {0, 1}

\* ------------------------------------------------------ open_channels, pure

\* mutant: the reconciliation loop is missing
Reconcile_skipped(pend, lc) == pend

\* "check connected pending channels": every listed channel's peer leaves pending
Reconcile(pend, lc) == pend \ {c.peer_id : c \in lc}

\* chan_funds = max_chan_funds.min(available_funds)
ChanFunds(cfg, avail) == Min(cfg.max_chan_funds, avail)

\* mutant: the existing channels are not subtracted from max_chan_num
RunOnceNum_ignores_local(cfg, lc) == Min(cfg.max_chan_num, MaxPerCycle)

\* run_once: num = max_chan_num.saturating_sub(local_channels.len()).min(20)
RunOnceNum(cfg, lc) ==
    Min(SaturatingSub(cfg.max_chan_num, Cardinality(lc)), MaxPerCycle)

\* mutant: num is not cut to the free pending slots
OpenNum_uncut(cfg, n, pend) == n

\* open_channels: num = num.min(max_pending - pending.len())
OpenNum(cfg, n, pend) == Min(n, cfg.max_pending - Cardinality(pend))

\* mutant: pending peers are not ignored
Ignored_without_pending(cfg, lc, pend) ==
    {c.peer_id : c \in {d \in lc : is_token(cfg.token, d.funding_udt_type_script)}}
        \cup {Self}

\* mutant: the agent itself is not ignored, nor the peers of its channels
Ignored_only_pending(cfg, lc, pend) == pend

\* the ignore set: same-token local channels, pending peers, the agent itself
Ignored(cfg, lc, pend) ==
    {c.peer_id : c \in {d \in lc : is_token(cfg.token, d.funding_udt_type_script)}}
        \cup pend \cup {Self}

\* find_map over udt_cfg_infos: the first matching cfg with an amount
RECURSIVE FindUdtAmount(_, _, _)
FindUdtAmount(token, cfgs, i) ==
    IF i > Len(cfgs) THEN None
    ELSE IF is_token(token, Some(cfgs[i].script)) /\ cfgs[i].auto_accept_amount # None
         THEN cfgs[i].auto_accept_amount
         ELSE FindUdtAmount(token, cfgs, i + 1)

get_min_funding_amount(token, node) ==
    IF token.type = "Ckb"
    THEN Some(node.auto_accept_min_ckb_funding_amount)
    ELSE FindUdtAmount(token, node.udt_cfg_infos, 1)

\* mutant: the minimum funding amount is looked up but not compared
KeepsNode_any_amount(cfg, node, cf) ==
    /\ node.addresses # <<>>
    /\ get_min_funding_amount(cfg.token, node) # None

\* does the node loop keep this graph node (agent.rs 224-262)?
KeepsNode(cfg, node, cf) ==
    /\ node.addresses # <<>>
    /\ LET m == get_min_funding_amount(cfg.token, node)
       IN  m # None /\ ~(m[1] > cf)

\* the set handed to the heuristics
CandidateNodes(cfg, g, ign, cf) ==
    {p \in AllIds : g[p] # None /\ p \notin ign /\ KeepsNode(cfg, g[p][1], cf)}

\* the addresses map after the node loop
NodeAddresses(g, nds) == [p \in nds |-> g[p][1].addresses]

\* all orders in which a HashMap over S can be iterated
Orders(S) ==
    {o \in [1..Cardinality(S) -> S] : \A i, j \in 1..Cardinality(S) : o[i] = o[j] => i = j}

\* HashMap::insert
MapInsert(m, k, v) == [q \in DOMAIN m \cup {k} |-> IF q = k THEN v ELSE m[q]]

\* "Insert external nodes scores": one push per configured address that names
\* a peer outside the ignore set; st = [scores, addresses]
RECURSIVE InsertExternal(_, _, _, _)
InsertExternal(ext, i, ign, st) ==
    IF i > Len(ext) THEN st
    ELSE LET peer == get_peer_id_from_addr(ext[i])
         IN  IF peer # None /\ peer[1] \notin ign
             THEN InsertExternal(ext, i + 1, ign,
                    [scores |-> Append(st.scores, <<peer[1], 1>>),
                     addresses |-> MapInsert(st.addresses, peer[1], <<ext[i]>>)])
             ELSE InsertExternal(ext, i + 1, ign, st)

\* --------------------------------------------------------------- choice_n
\*
\* rand's WeightedIndex, as choice_n uses it: new(weights) is an error for an
\* empty list and for a total weight of zero; sample draws an index with
\* probability weight / total, so only an index of positive weight; and
\* update_weights is an error, leaving the distribution as it was, when the
\* total weight after the update is zero. choice_n unwraps both results.

RECURSIVE TotalWeight(_, _)
TotalWeight(w, i) == IF i > Len(w) THEN 0 ELSE w[i] + TotalWeight(w, i + 1)

Panicked == [panic |-> TRUE, items |-> <<>>]
Returned(s) == [panic |-> FALSE, items |-> s]

\* mutant: sample draws any index, whatever its weight
RECURSIVE DrawLoop_any_index(_, _, _, _)
DrawLoop_any_index(items, w, n, samples) ==
    IF ~(Len(samples) < n) THEN {Returned(samples)}
    ELSE UNION { LET w2 == [w EXCEPT ![i] = 0]
                 IN  IF TotalWeight(w2, 1) <= 0 THEN {Panicked}
                     ELSE DrawLoop_any_index(items, w2, n, Append(samples, items[i]))
                 : i \in 1..Len(items) }

\* the draw loop: sample an index of positive weight, zero its weight
\* (update_weights fails, and unwrap panics, once no weight is left), push
RECURSIVE DrawLoop(_, _, _, _)
DrawLoop(items, w, n, samples) ==
    IF ~(Len(samples) < n) THEN {Returned(samples)}
    ELSE UNION { LET w2 == [w EXCEPT ![i] = 0]
                 IN  IF TotalWeight(w2, 1) <= 0 THEN {Panicked}
                     ELSE DrawLoop(items, w2, n, Append(samples, items[i]))
                 : i \in {j \in 1..Len(items) : w[j] > 0} }

\* mutant: no early return for a list shorter than n
choice_n_always_draws(items, n) ==
    LET w == [i \in 1..Len(items) |-> items[i][2]]
    IN  IF Len(items) = 0 \/ TotalWeight(w, 1) <= 0 THEN {Panicked}
        ELSE DrawLoop(items, w, n, <<>>)

\* choice_n(items, n): the set of possible outcomes
choice_n(items, n) ==
    IF Len(items) < n THEN {Returned(items)}
    ELSE LET w == [i \in 1..Len(items) |-> items[i][2]]
         IN  IF Len(items) = 0 \/ TotalWeight(w, 1) <= 0 THEN {Panicked}
             ELSE DrawLoop(items, w, n, <<>>)

\* ------------------------------------------------------------ allocation

OpenChannelCmd(p, f, tok, addrs) ==
    [peer |-> p, funds |-> f, token |-> tok, addresses |-> addrs]

\* mutant: the budget is not decremented
RECURSIVE Allocate_no_decrement(_, _, _, _, _, _, _)
Allocate_no_decrement(cfg, sel, i, avail, cf, addrs, acc) ==
    IF i > Len(sel) THEN acc
    ELSE LET funds == Min(avail, cf)
         IN  IF funds < cfg.min_chan_funds THEN acc
             ELSE Allocate_no_decrement(cfg, sel, i + 1, avail, cf, addrs,
                    Append(acc, OpenChannelCmd(sel[i][1], funds, cfg.token,
                                               addrs[sel[i][1]])))

\* mutant: every funded peer gets the target, whatever is left of the budget
RECURSIVE Allocate_unclamped(_, _, _, _, _, _, _)
Allocate_unclamped(cfg, sel, i, avail, cf, addrs, acc) ==
    IF i > Len(sel) THEN acc
    ELSE IF cf < cfg.min_chan_funds THEN acc
    ELSE Allocate_unclamped(cfg, sel, i + 1, avail - cf, cf, addrs,
            Append(acc, OpenChannelCmd(sel[i][1], cf, cfg.token, addrs[sel[i][1]])))

\* the funding loop over the sampler's output (agent.rs 288-311)
RECURSIVE Allocate(_, _, _, _, _, _, _)
Allocate(cfg, sel, i, avail, cf, addrs, acc) ==
    IF i > Len(sel) THEN acc
    ELSE LET funds == Min(avail, cf)
         IN  IF funds < cfg.min_chan_funds THEN acc
             ELSE Allocate(cfg, sel, i + 1, avail - funds, cf, addrs,
                    Append(acc, OpenChannelCmd(sel[i][1], funds, cfg.token,
                                               addrs[sel[i][1]])))

\* ------------------------------------------------------------------ state

VARIABLES
    config,           \* AgentConfig, fixed at construction
    pending,          \* Agent::pending
    pc,               \* "idle" (top of the run loop), "open" (start and resolve
                      \* loops), "sleep" (run_once returned), "crashed" (panic)
    result,           \* how the last cycle ended
    pending_start,    \* pending when the cycle started, before reconciliation
    local_channels,   \* this cycle's local-channel listing
    available_funds,  \* this cycle's balance
    graph,            \* this cycle's node snapshot
    num,              \* open_channels' num after the max_pending cut
    nodes,            \* the set handed to the heuristics
    scores,           \* the scored list handed to choice_n
    selected,         \* choice_n's output
    candidates,       \* the funded commands
    ci,               \* index of the next command of the start loop
    handles,          \* the spawned actions, in spawn order
    ri,               \* index of the next handle of the resolve loop
    sampler,          \* one call of choice_n: its arguments and its outcome
    topo,             \* one call of Graph::build: its arguments and its result
    bc,               \* one call of the centrality scorer, step by step
    hs,               \* one call of the heuristics' get_node_scores
    ex,               \* one call of Agent::execute: its command and its requests
    cmp               \* one graph put through both BetweennessCentrality copies

vars == <<config, pending, pc, result, pending_start, local_channels,
          available_funds, graph, num, nodes, scores, selected, candidates,
          ci, handles, ri, sampler, topo, bc, hs, ex, cmp>>

cycleVars == <<pending_start, local_channels, available_funds, graph, num,
               nodes, scores, selected, candidates, ci, handles, ri>>

\* the state of the function calls examined on their own
pureVars == <<sampler, topo, bc, hs, ex, cmp>>

agentVars == <<config, pending, pc, result, cycleVars>>

NoGraph == [p \in AllIds |-> None]

\* no function call is under examination
NoCall == [st |-> "none"]

\* Agent::new: pending is empty
AgentInit ==
    /\ config \in Configs
    /\ pending = {}
    /\ pc = "idle"
    /\ result = "none"
    /\ pending_start = {}
    /\ local_channels = {}
    /\ available_funds = 0
    /\ graph = NoGraph
    /\ num = 0
    /\ nodes = {}
    /\ scores = <<>>
    /\ selected = <<>>
    /\ candidates = <<>>
    /\ ci = 1
    /\ handles = <<>>
    /\ ri = 1

Init ==
    /\ AgentInit
    /\ sampler = NoCall
    /\ topo = NoCall
    /\ bc = NoCall
    /\ hs = NoCall
    /\ ex = NoCall
    /\ cmp = NoCall

\* what a cycle records of its inputs and of how far it got
Cycle(lc, avail, g, n, nds, sc, sel, cand) ==
    /\ pending_start' = pending
    /\ local_channels' = lc
    /\ available_funds' = avail
    /\ graph' = g
    /\ num' = n
    /\ nodes' = nds
    /\ scores' = sc
    /\ selected' = sel
    /\ candidates' = cand
    /\ ci' = 1
    /\ handles' = <<>>
    /\ ri' = 1

\* the scored list before choice_n: the heuristics' map in some iteration
\* order, then the external nodes
ScoredLists(cfg, nds, g, ign) ==
    { InsertExternal(cfg.external_nodes, 1, ign,
        [scores |-> [i \in 1..Cardinality(nds) |-> <<o[i], sc[o[i]]>>],
         addresses |-> NodeAddresses(g, nds)])
      : o \in Orders(nds), sc \in [nds -> ScoreVals] }

\* ----------------------------------------------------------- cycle starts

\* what run_once holds when one of its calls fails: nothing (graph_nodes
\* failed), the node list (graph_channels or local_channels failed), or the
\* node list and the local channels (node_info or get_balance failed)
FetchedBeforeFailure ==
    {[graph |-> NoGraph, local_channels |-> {}]}
        \cup {[graph |-> g, local_channels |-> {}] : g \in GraphSnapshots}
        \cup {[graph |-> g, local_channels |-> lc] :
                 g \in GraphSnapshots, lc \in LocalListings}

\* run_once: graph_nodes, graph_channels, local_channels, node_info or
\* get_balance fails and `?` returns the error
\* mutant: the pending channels are reconciled against a listing that was
\* fetched before the failing call
RunOnceFetchFail_reconciles ==
    /\ pc = "idle"
    /\ \E fetched \in FetchedBeforeFailure :
          /\ Cycle(fetched.local_channels, 0, fetched.graph, 0, {}, <<>>, <<>>, <<>>)
          /\ pending' = Reconcile(pending, fetched.local_channels)
    /\ result' = "fetch_error"
    /\ pc' = "sleep"
    /\ UNCHANGED <<config, pureVars>>

RunOnceFetchFail ==
    /\ pc = "idle"
    /\ \E fetched \in FetchedBeforeFailure :
          Cycle(fetched.local_channels, 0, fetched.graph, 0, {}, <<>>, <<>>, <<>>)
    /\ result' = "fetch_error"
    /\ pc' = "sleep"
    /\ UNCHANGED <<config, pending, pureVars>>

\* open_channels bails: chan_funds < min_chan_funds
OpenInsufficientFunds ==
    /\ pc = "idle"
    /\ \E lc \in LocalListings, avail \in Balances, g \in GraphSnapshots :
          /\ ChanFunds(config, avail) < config.min_chan_funds
          /\ pending' = Reconcile(pending, lc)
          /\ Cycle(lc, avail, g, 0, {}, <<>>, <<>>, <<>>)
    /\ result' = "insufficient_funds"
    /\ pc' = "sleep"
    /\ UNCHANGED <<config, pureVars>>

\* open_channels returns Ok early: pending.len() >= max_pending
OpenTooManyPending ==
    /\ pc = "idle"
    /\ \E lc \in LocalListings, avail \in Balances, g \in GraphSnapshots :
          /\ ~(ChanFunds(config, avail) < config.min_chan_funds)
          /\ Cardinality(Reconcile(pending, lc)) >= config.max_pending
          /\ pending' = Reconcile(pending, lc)
          /\ Cycle(lc, avail, g, 0, {}, <<>>, <<>>, <<>>)
    /\ result' = "ok"
    /\ pc' = "sleep"
    /\ UNCHANGED <<config, pureVars>>

\* the heuristics fail: get_node_scores returns an error (a scoring task
\* could not be joined) or panics (the centrality assertion)
OpenScoreFail ==
    /\ pc = "idle"
    /\ \E lc \in LocalListings, avail \in Balances, g \in GraphSnapshots,
          how \in {"score_error", "panic"} :
          LET pend == Reconcile(pending, lc)
              cf   == ChanFunds(config, avail)
              n    == OpenNum(config, RunOnceNum(config, lc), pend)
              ign  == Ignored(config, lc, pend)
              nds  == CandidateNodes(config, g, ign, cf)
          IN  /\ ~(cf < config.min_chan_funds)
              /\ ~(Cardinality(pend) >= config.max_pending)
              /\ pending' = pend
              /\ Cycle(lc, avail, g, n, nds, <<>>, <<>>, <<>>)
              /\ result' = how
              /\ pc' = IF how = "panic" THEN "crashed" ELSE "sleep"
    /\ UNCHANGED <<config, pureVars>>

\* choice_n panics: WeightedIndex::new(..).unwrap() or update_weights(..).unwrap()
OpenSamplerPanic ==
    /\ pc = "idle"
    /\ \E lc \in LocalListings, avail \in Balances, g \in GraphSnapshots :
          LET pend == Reconcile(pending, lc)
              cf   == ChanFunds(config, avail)
              n    == OpenNum(config, RunOnceNum(config, lc), pend)
              ign  == Ignored(config, lc, pend)
              nds  == CandidateNodes(config, g, ign, cf)
          IN  /\ ~(cf < config.min_chan_funds)
              /\ ~(Cardinality(pend) >= config.max_pending)
              /\ \E sl \in ScoredLists(config, nds, g, ign) :
                    /\ Panicked \in choice_n(sl.scores, n)
                    /\ Cycle(lc, avail, g, n, nds, sl.scores, <<>>, <<>>)
              /\ pending' = pend
    /\ result' = "panic"
    /\ pc' = "crashed"
    /\ UNCHANGED <<config, pureVars>>

\* open_channels reaches the start loop with its funded commands
OpenSelect ==
    /\ pc = "idle"
    /\ \E lc \in LocalListings, avail \in Balances, g \in GraphSnapshots :
          LET pend == Reconcile(pending, lc)
              cf   == ChanFunds(config, avail)
              n    == OpenNum(config, RunOnceNum(config, lc), pend)
              ign  == Ignored(config, lc, pend)
              nds  == CandidateNodes(config, g, ign, cf)
          IN  /\ ~(cf < config.min_chan_funds)
              /\ ~(Cardinality(pend) >= config.max_pending)
              /\ \E sl \in ScoredLists(config, nds, g, ign) :
                 \E out \in choice_n(sl.scores, n) :
                    /\ ~out.panic
                    /\ Cycle(lc, avail, g, n, nds, sl.scores, out.items,
                             Allocate(config, out.items, 1, avail, cf,
                                      sl.addresses, <<>>))
              /\ pending' = pend
    /\ result' = "running"
    /\ pc' = "open"
    /\ UNCHANGED <<config, pureVars>>

\* ------------------------------------------------------------- start loop

\* "Skipping pending connection": the command's peer is already pending
SkipPendingCmd ==
    /\ pc = "open"
    /\ ci <= Len(candidates)
    /\ candidates[ci].peer \in pending
    /\ ci' = ci + 1
    /\ UNCHANGED <<config, pending, pc, result, pending_start, local_channels,
                   available_funds, graph, num, nodes, scores, selected,
                   candidates, handles, ri, pureVars>>

\* mutant: the action is spawned without marking its peer pending
StartCmd_without_insert ==
    /\ pc = "open"
    /\ ci <= Len(candidates)
    /\ candidates[ci].peer \notin pending
    /\ handles' = Append(handles, [cmd |-> candidates[ci], st |-> "spawned"])
    /\ ci' = ci + 1
    /\ UNCHANGED <<config, pending, pc, result, pending_start, local_channels,
                   available_funds, graph, num, nodes, scores, selected,
                   candidates, ri, pureVars>>

\* pending.insert(peer), then tokio::spawn(execute(cmd))
StartCmd ==
    /\ pc = "open"
    /\ ci <= Len(candidates)
    /\ candidates[ci].peer \notin pending
    /\ pending' = pending \cup {candidates[ci].peer}
    /\ handles' = Append(handles, [cmd |-> candidates[ci], st |-> "spawned"])
    /\ ci' = ci + 1
    /\ UNCHANGED <<config, pc, result, pending_start, local_channels,
                   available_funds, graph, num, nodes, scores, selected,
                   candidates, ri, pureVars>>

\* ---------------------------------------------------------------- execute

Finished == {"ok", "no_address", "connect_error", "open_error", "aborted"}

SetHandle(i, st) ==
    /\ handles' = [handles EXCEPT ![i].st = st]
    /\ UNCHANGED <<config, pending, pc, result, pending_start, local_channels,
                   available_funds, graph, num, nodes, scores, selected,
                   candidates, ci, ri, pureVars>>

\* addresses.first() and connect_peer: no address, a connect error, or success
\* (the task then sleeps for the 3 s grace period)
ExecuteConnect ==
    \E i \in 1..Len(handles), ok \in BOOLEAN :
        /\ handles[i].st = "spawned"
        /\ SetHandle(i, IF handles[i].cmd.addresses = <<>> THEN "no_address"
                        ELSE IF ok THEN "connected" ELSE "connect_error")

\* after the grace period, open_channel: a temporary channel id or an error
ExecuteOpen ==
    \E i \in 1..Len(handles), ok \in BOOLEAN :
        /\ handles[i].st = "connected"
        /\ SetHandle(i, IF ok THEN "ok" ELSE "open_error")

\* the task panics or is cancelled: its JoinHandle yields Err
ExecuteAbort ==
    \E i \in 1..Len(handles) :
        /\ handles[i].st \in {"spawned", "connected"}
        /\ SetHandle(i, "aborted")

\* ------------------------------------------------------------ resolve loop

\* mutant: the first failed handle ends the resolve loop (an early return)
ResolveHandle_stops_at_failure ==
    /\ pc = "open"
    /\ ~(ci <= Len(candidates))
    /\ ri <= Len(handles)
    /\ handles[ri].st \in Finished
    /\ pending' = IF handles[ri].st = "ok" THEN pending
                  ELSE pending \ {handles[ri].cmd.peer}
    /\ ri' = IF handles[ri].st = "ok" THEN ri + 1 ELSE Len(handles) + 1
    /\ UNCHANGED <<config, pc, result, pending_start, local_channels,
                   available_funds, graph, num, nodes, scores, selected,
                   candidates, ci, handles, pureVars>>

\* handle.await of the next handle, in spawn order: a success leaves the peer
\* pending, anything else removes it
ResolveHandle ==
    /\ pc = "open"
    /\ ~(ci <= Len(candidates))
    /\ ri <= Len(handles)
    /\ handles[ri].st \in Finished
    /\ pending' = IF handles[ri].st = "ok" THEN pending
                  ELSE pending \ {handles[ri].cmd.peer}
    /\ ri' = ri + 1
    /\ UNCHANGED <<config, pc, result, pending_start, local_channels,
                   available_funds, graph, num, nodes, scores, selected,
                   candidates, ci, handles, pureVars>>

\* mutant: open_channels returns without awaiting its handles
OpenReturn_without_join ==
    /\ pc = "open"
    /\ ~(ci <= Len(candidates))
    /\ pc' = "sleep"
    /\ result' = "ok"
    /\ UNCHANGED <<config, pending, cycleVars, pureVars>>

\* open_channels returns Ok(())
OpenReturn ==
    /\ pc = "open"
    /\ ~(ci <= Len(candidates))
    /\ ~(ri <= Len(handles))
    /\ pc' = "sleep"
    /\ result' = "ok"
    /\ UNCHANGED <<config, pending, cycleVars, pureVars>>

\* ---------------------------------------------------------------- run loop

\* mutant: the pending peers expire with the interval
IntervalElapsed_expires_pending ==
    /\ pc = "sleep"
    /\ pc' = "idle"
    /\ result' = "none"
    /\ pending' = {}
    /\ pending_start' = {}
    /\ local_channels' = {}
    /\ available_funds' = 0
    /\ graph' = NoGraph
    /\ num' = 0
    /\ nodes' = {}
    /\ scores' = <<>>
    /\ selected' = <<>>
    /\ candidates' = <<>>
    /\ ci' = 1
    /\ handles' = <<>>
    /\ ri' = 1
    /\ UNCHANGED <<config, pureVars>>

\* run: the error, if any, is logged, the interval elapses and the loop
\* starts over; run_once's locals are gone
IntervalElapsed ==
    /\ pc = "sleep"
    /\ pc' = "idle"
    /\ result' = "none"
    /\ pending_start' = {}
    /\ local_channels' = {}
    /\ available_funds' = 0
    /\ graph' = NoGraph
    /\ num' = 0
    /\ nodes' = {}
    /\ scores' = <<>>
    /\ selected' = <<>>
    /\ candidates' = <<>>
    /\ ci' = 1
    /\ handles' = <<>>
    /\ ri' = 1
    /\ UNCHANGED <<config, pending, pureVars>>

Next ==
    \/ RunOnceFetchFail
    \/ OpenInsufficientFunds
    \/ OpenTooManyPending
    \/ OpenScoreFail
    \/ OpenSamplerPanic
    \/ OpenSelect
    \/ SkipPendingCmd
    \/ StartCmd
    \/ ExecuteConnect
    \/ ExecuteOpen
    \/ ExecuteAbort
    \/ ResolveHandle
    \/ OpenReturn
    \/ IntervalElapsed

Spec == Init /\ [][Next]_vars

\* ------------------------------------------------------------- properties

\* the peers of a list of (peer, score) pairs, of commands, of handles
ItemPeers(items) == {items[i][1] : i \in 1..Len(items)}
CmdPeers(cmds) == {cmds[i].peer : i \in 1..Len(cmds)}
HandlePeers == {handles[i].cmd.peer : i \in 1..Len(handles)}

\* the peers of this cycle's local-channel listing
ListedPeers == {c.peer_id : c \in local_channels}

\* pending once this cycle's listing has been reconciled
PendingReconciled == pending_start \ ListedPeers

\* target_funds_per_channel
Target == Min(config.max_chan_funds, available_funds)

\* open_channels ran in the current cycle (its inputs are recorded)
OpenRan == pc # "idle" /\ result # "fetch_error"

\* the listing has a channel with peer p in the agent's asset type
SameAssetChannel(p) ==
    \E c \in local_channels :
        /\ c.peer_id = p
        /\ \/ config.token.type = "Ckb" /\ c.funding_udt_type_script = None
           \/ config.token.type = "Udt"
                /\ c.funding_udt_type_script = Some(config.token.script)

\* C1: the number of pending peers never exceeds max_pending, also while the
\* actions of a cycle are in flight
C1_PendingWithinMax == Cardinality(pending) <= config.max_pending

\* C1 witness: pending is full, below the number of peers, with an action in flight
C1_Witness ==
    /\ pc = "open"
    /\ Cardinality(pending) = config.max_pending
    /\ config.max_pending < NumPeers
    /\ \E i \in 1..Len(handles) : handles[i].st = "spawned"

\* C2: a peer that is pending at cycle start and not confirmed by the cycle's
\* listing is not handed to the heuristics, scored, selected, funded or given
\* an action in that cycle
C2_PendingNeverSelected ==
    OpenRan =>
        \A p \in PendingReconciled :
            /\ p \notin nodes
            /\ p \notin ItemPeers(scores)
            /\ p \notin ItemPeers(selected)
            /\ p \notin CmdPeers(candidates)
            /\ p \notin HandlePeers

\* C2 witness: a still-pending peer is an eligible graph node and is named by
\* external_nodes, and the cycle spawns an action for some other peer
C2_Witness ==
    /\ pc = "open"
    /\ handles # <<>>
    /\ \E p \in PendingReconciled :
          /\ graph[p] = Some(EligibleNode)
          /\ \E i \in 1..Len(config.external_nodes) :
                config.external_nodes[i].p2p = Some(p)

\* C3: the peer of every spawned action that is not resolved yet is pending
\* (it was inserted before the action could start), and when the cycle has
\* ended a peer of a spawned action is pending iff its action returned a
\* temporary channel id
C3_PendingTracksActions ==
    /\ \A i \in 1..Len(handles) : i >= ri => handles[i].cmd.peer \in pending
    /\ pc = "sleep" =>
          \A i \in 1..Len(handles) :
              handles[i].cmd.peer \in pending <=> handles[i].st = "ok"

\* C3 witness: a cycle has ended with a succeeded, a failed and no other action
C3_Witness ==
    /\ pc = "sleep"
    /\ Len(handles) = 2
    /\ handles[1].st = "aborted"
    /\ handles[2].st = "ok"

\* the funds the i-th funded command must carry: min(remaining budget, target)
RECURSIVE FundedBefore(_)
FundedBefore(i) == IF i <= 1 THEN 0 ELSE candidates[i - 1].funds + FundedBefore(i - 1)

\* the funded commands are a prefix of the selection, each with
\* min(remaining budget, target), within [min_chan_funds, max_chan_funds]
FundedInOrder ==
    /\ Len(candidates) <= Len(selected)
    /\ \A i \in 1..Len(candidates) :
          /\ candidates[i].peer = selected[i][1]
          /\ candidates[i].funds = Min(available_funds - FundedBefore(i), Target)
          /\ candidates[i].funds >= config.min_chan_funds
          /\ candidates[i].funds <= config.max_chan_funds

\* the closed form of the number funded
FundedCount ==
    Min(Len(selected),
        (available_funds \div Target)
          + (IF available_funds % Target >= config.min_chan_funds THEN 1 ELSE 0))

\* C4 as stated: the funded commands are the selection's prefix of the
\* closed-form length, for every configuration
C4_AsStated ==
    pc \in {"open", "sleep"} /\ result # "insufficient_funds" /\ available_funds > 0 =>
        FundedInOrder /\ Len(candidates) = FundedCount

\* C4 amended: the closed form holds when min_chan_funds > 0; with
\* min_chan_funds = 0 the allocation never stops and every selected peer is
\* funded
C4_FundingAmended ==
    pc \in {"open", "sleep"} /\ result # "insufficient_funds" /\ available_funds > 0 =>
        /\ FundedInOrder
        /\ config.min_chan_funds > 0 => Len(candidates) = FundedCount
        /\ config.min_chan_funds = 0 => Len(candidates) = Len(selected)

\* C4 witness: two peers are funded, the second with the remainder, which is
\* below the target but not below min_chan_funds
C4_Witness ==
    /\ pc = "open"
    /\ config.min_chan_funds > 0
    /\ Len(candidates) = 2
    /\ candidates[2].funds < Target

\* the setting of C5: 100 available, 30 minimum, 40 maximum, nothing pending,
\* at least 3 slots, three distinct candidates of one and the same positive score
C5_Setting ==
    /\ available_funds = 100
    /\ config.min_chan_funds = 30
    /\ config.max_chan_funds = 40
    /\ pending_start = {}
    /\ num >= 3
    /\ Len(scores) = 3
    /\ Cardinality(ItemPeers(scores)) = 3
    /\ \A i \in 1..3 : scores[i][2] = 1

\* C5: in that setting the cycle funds exactly 2 channels and PendingSet
\* gains exactly 2 peers
C5_TwoOfThreeFunded ==
    C5_Setting /\ (pc \in {"sleep", "crashed"} \/ (pc = "open" /\ ci > Len(candidates))) =>
        /\ Len(candidates) = 2
        /\ Len(handles) = 2
        /\ candidates[1].funds = 40
        /\ candidates[2].funds = 40

\* C6: when the target is below min_chan_funds the cycle ends with the
\* insufficient-funds error, nothing is funded or spawned, and pending is the
\* pending of the cycle's start less the peers of the listing
C6_InsufficientFunds ==
    OpenRan /\ Target < config.min_chan_funds =>
        /\ result = "insufficient_funds"
        /\ pc = "sleep"
        /\ candidates = <<>>
        /\ handles = <<>>
        /\ pending = pending_start \ ListedPeers

\* C6 witness: an insufficient-funds cycle whose reconciliation confirmed a peer
C6_Witness ==
    /\ result = "insufficient_funds"
    /\ pending # pending_start

C8_NoSelfNoSameAsset ==
    \A i \in 1..Len(handles) :
        /\ handles[i].cmd.peer # Self
        /\ ~SameAssetChannel(handles[i].cmd.peer)

\* C8 witness: an action towards a peer whose local channel is of another
\* asset type, while the agent's own node is an eligible node of the graph and
\* named by external_nodes
C8_Witness ==
    /\ graph[Self] = Some(EligibleNode)
    /\ \E i \in 1..Len(config.external_nodes) :
          config.external_nodes[i].p2p = Some(Self)
    /\ \E i \in 1..Len(handles) : handles[i].cmd.peer \in ListedPeers

\* node n lists the agent's token with an auto-accept amount, the first such
\* amount being at most t
AdvertisesUdtWithin(n, t) ==
    \E i \in 1..Len(n.udt_cfg_infos) :
        /\ n.udt_cfg_infos[i].script = config.token.script
        /\ n.udt_cfg_infos[i].auto_accept_amount # None
        /\ n.udt_cfg_infos[i].auto_accept_amount[1] <= t
        /\ \A j \in 1..(i - 1) :
              ~(/\ n.udt_cfg_infos[j].script = config.token.script
                /\ n.udt_cfg_infos[j].auto_accept_amount # None)

\* C9: every node handed to the heuristics is a node of the graph with an
\* address whose minimum funding amount for the agent's asset type is at most
\* the target
C9_ScoredNodesEligible ==
    OpenRan =>
        \A p \in nodes :
            /\ graph[p] # None
            /\ Len(graph[p][1].addresses) >= 1
            /\ IF config.token.type = "Ckb"
               THEN graph[p][1].auto_accept_min_ckb_funding_amount <= Target
               ELSE AdvertisesUdtWithin(graph[p][1], Target)

\* C9 witness: a token agent scores a node whose token amount comes after an
\* entry without amount, and leaves out a node that lists the token without one
C9_Witness ==
    /\ config.token.type = "Udt"
    /\ \E p \in nodes : graph[p] = Some(HighMinNode)
    /\ \E p \in Peers \ (nodes \cup PendingReconciled \cup ListedPeers) :
          graph[p] = Some(NoUdtNode)

\* C10: a cycle that spawned actions returns Ok with every action finished,
\* and pending is then the reconciled pending plus the peers whose action
\* succeeded
C10_FailureLocalized ==
    pc = "sleep" /\ handles # <<>> =>
        /\ result = "ok"
        /\ \A i \in 1..Len(handles) : handles[i].st \in Finished
        /\ pending = PendingReconciled
                       \cup {handles[i].cmd.peer : i \in {j \in 1..Len(handles) : handles[j].st = "ok"}}

\* C10 witness: a cycle has ended whose first action failed to connect and
\* whose second action succeeded and is still pending
C10_Witness ==
    /\ pc = "sleep"
    /\ Len(handles) = 2
    /\ handles[1].st = "connect_error"
    /\ handles[2].st = "ok"
    /\ handles[2].cmd.peer \in pending
    /\ handles[1].cmd.peer \notin pending

\* ================================================= functions on their own
\*
\* The sampler, the graph builder and the centrality scorer are functions of
\* their arguments. Each is examined by a specification of its own, which
\* draws the arguments from a bounded set and applies the function; the
\* agent's variables stay as Agent::new leaves them.

\* the agent, constructed and not yet run, with the first configuration
AgentParked ==
    /\ AgentInit
    /\ config = Cfg(CkbToken, <<>>, 5, 4, 30, 40)

\* all sequences over S of length at most n
SeqsUpTo(S, n) == UNION {[1..k -> S] : k \in 0..n}

\* ---------------------------------------------------- choice_n on its own

\* longest item list handed to choice_n
MaxItems == 3
\* largest weight of an item
MaxWeight == 2

\* item lists: the item at position i carries i as its value, so that an
\* output item names the position it was drawn from
SamplerItems ==
    {[i \in DOMAIN w |-> <<i, w[i]>>] : w \in SeqsUpTo(0..MaxWeight, MaxItems)}

SamplerInit ==
    /\ AgentParked
    /\ sampler \in {[st |-> "input", items |-> it, n |-> n] :
                      it \in SamplerItems, n \in 0..(MaxItems + 1)}
    /\ topo = NoCall
    /\ bc = NoCall
    /\ hs = NoCall
    /\ ex = NoCall
    /\ cmp = NoCall

\* one call choice_n(items, n)
ChoiceN ==
    /\ sampler.st = "input"
    /\ \E out \in choice_n(sampler.items, sampler.n) :
          sampler' = [st |-> "done", items |-> sampler.items, n |-> sampler.n,
                      out |-> out]
    /\ UNCHANGED <<agentVars, topo, bc, hs, ex, cmp>>

SamplerNext == ChoiceN

SamplerSpec == SamplerInit /\ [][SamplerNext]_vars

\* ------------------------------------------------------------ Graph::build
\*
\* Node and channel indices are those of the code plus one.

\* longest node list; there is one node identity more, so that some identity
\* is always missing from the list
MaxGraphNodes == 2
\* longest channel list
MaxChannels == 2

\* ChannelInfo: the two endpoints
ChannelInfo(a, b) == [node1 |-> a, node2 |-> b]

\* node_to_idx.get(id): the map is collected from the (node_id, index) pairs
\* in list order, so a repeated identity keeps its last index
node_to_idx(nds, id) ==
    LET at == {i \in DOMAIN nds : nds[i] = id}
    IN  IF at = {} THEN None ELSE Some(CHOOSE i \in at : \A j \in at : j <= i)

\* "build node channels": a channel with a missing endpoint is skipped, and
\* counted, at the first missing endpoint; any other channel's index is pushed
\* to the list of node1 and then to the list of node2
RECURSIVE BuildNodeChannels(_, _, _, _)
BuildNodeChannels(nds, chans, c_idx, st) ==
    IF c_idx > Len(chans) THEN st
    ELSE IF node_to_idx(nds, chans[c_idx].node1) = None
              \/ node_to_idx(nds, chans[c_idx].node2) = None
    THEN BuildNodeChannels(nds, chans, c_idx + 1,
            [st EXCEPT !.skip_channel_num = @ + 1])
    ELSE LET n1  == node_to_idx(nds, chans[c_idx].node1)[1]
             n2  == node_to_idx(nds, chans[c_idx].node2)[1]
             nc1 == [st.node_channels EXCEPT ![n1] = Append(@, c_idx)]
             nc2 == [nc1 EXCEPT ![n2] = Append(@, c_idx)]
         IN  BuildNodeChannels(nds, chans, c_idx + 1,
                [st EXCEPT !.node_channels = nc2])

\* mutant: the adjacent node is always the channel's second endpoint
AdjacentNode_always_second(n_idx, n1, n2) == n2

\* "push adjacent node v": v_idx = if n_idx == n1 { n2 } else { n1 }
AdjacentNode(n_idx, n1, n2) == IF n_idx = n1 THEN n2 ELSE n1

\* compute_edges: the adjacency lists, and the skip count it logs
compute_edges(nds, chans) ==
    LET st == BuildNodeChannels(nds, chans, 1,
                [node_channels |-> [i \in DOMAIN nds |-> <<>>],
                 skip_channel_num |-> 0])
    IN  [edges |->
            [n_idx \in DOMAIN nds |->
               [k \in DOMAIN st.node_channels[n_idx] |->
                  LET c == chans[st.node_channels[n_idx][k]]
                  IN  AdjacentNode(n_idx, node_to_idx(nds, c.node1)[1],
                                   node_to_idx(nds, c.node2)[1])]],
         skip_channel_num |-> st.skip_channel_num]

\* Graph::build
GraphBuild(nds, chans) ==
    [nodes |-> nds, channels |-> chans, edges |-> compute_edges(nds, chans).edges]

GraphIds == 1..(MaxGraphNodes + 1)

GraphInit ==
    /\ AgentParked
    /\ sampler = NoCall
    /\ \E nds \in SeqsUpTo(GraphIds, MaxGraphNodes),
          chans \in SeqsUpTo({ChannelInfo(a, b) : a, b \in GraphIds}, MaxChannels) :
          topo = [st |-> "input", nodes |-> nds, channels |-> chans]
    /\ bc = NoCall
    /\ hs = NoCall
    /\ ex = NoCall
    /\ cmp = NoCall

\* a build that keeps only the channels it found both endpoints of
BuildGraph_drops_skipped ==
    /\ topo.st = "input"
    /\ LET r == compute_edges(topo.nodes, topo.channels)
           valid(c) == node_to_idx(topo.nodes, c.node1) # None
                       /\ node_to_idx(topo.nodes, c.node2) # None
       IN  topo' = [st |-> "built", nodes |-> topo.nodes,
                    channels |-> SelectSeq(topo.channels, valid),
                    edges |-> r.edges, skip_channel_num |-> r.skip_channel_num]
    /\ UNCHANGED <<agentVars, sampler, bc, hs, ex, cmp>>

\* one call Graph::build(nodes, channels): compute_edges, which also logs
\* its skip count
BuildGraph ==
    /\ topo.st = "input"
    /\ LET r == compute_edges(topo.nodes, topo.channels)
       IN  topo' = [st |-> "built", nodes |-> topo.nodes, channels |-> topo.channels,
                    edges |-> r.edges, skip_channel_num |-> r.skip_channel_num]
    /\ UNCHANGED <<agentVars, sampler, bc, hs, ex, cmp>>

GraphNext == BuildGraph

GraphSpec == GraphInit /\ [][GraphNext]_vars

\* ------------------------------------------------- heuristics/centrality
\*
\* The f64 values of the centrality code are rationals here, pairs
\* <<numerator, denominator>> in lowest terms with a positive denominator, so
\* sums, quotients and comparisons are exact.

RECURSIVE GCD(_, _)
GCD(a, b) == IF b = 0 THEN a ELSE GCD(b, a % b)

Rat(a, b) ==
    LET g == GCD(IF a < 0 THEN -a ELSE a, b)
    IN  <<a \div g, b \div g>>

RZero == <<0, 1>>
ROne == <<1, 1>>
RHalf == <<1, 2>>
RAdd(x, y) == Rat(x[1] * y[2] + y[1] * x[2], x[2] * y[2])
RSub(x, y) == Rat(x[1] * y[2] - y[1] * x[2], x[2] * y[2])
RMul(x, y) == Rat(x[1] * y[1], x[2] * y[2])
RLess(x, y) == x[1] * y[2] < y[1] * x[2]
\* 1.0 / x, for x > 0
RInv(x) == <<x[2], x[1]>>

\* Vec::insert(index, element): the elements from index on move up by one
VecInsert(v, i, x) == SubSeq(v, 1, i - 1) \o <<x>> \o SubSeq(v, i, Len(v))

\* "for w in edges[v]": the first visit of w sets its distance and queues it;
\* every visit from a node one step nearer the source adds that node's path
\* count and records it as a predecessor
RECURSIVE VisitNeighbours(_, _, _, _)
VisitNeighbours(st, v, ws, k) ==
    IF k > Len(ws) THEN st
    ELSE LET w   == ws[k]
             st1 == IF st.dist[w] = -1
                    THEN [st EXCEPT !.dist[w] = st.dist[v] + 1,
                                    !.queue = Append(@, w)]
                    ELSE st
             st2 == IF st1.dist[w] = st1.dist[v] + 1
                    THEN [st1 EXCEPT !.sigma[w] = @ + st1.sigma[v],
                                     !.pred[w] = Append(@, v)]
                    ELSE st1
         IN  VisitNeighbours(st2, v, ws, k + 1)

\* "while let Some(v) = queue.pop_front()"
RECURSIVE BreadthFirst(_, _)
BreadthFirst(edges, st) ==
    IF st.queue = <<>> THEN st
    ELSE LET v == Head(st.queue)
         IN  BreadthFirst(edges,
                VisitNeighbours([st EXCEPT !.queue = Tail(@),
                                           !.stack = Append(@, v)],
                                v, edges[v], 1))

\* "for v in pred[w]": delta[v] += (sigma[v] / sigma[w]) * (1 + delta[w])
RECURSIVE AddDependencies(_, _, _, _, _)
AddDependencies(delta, sigma, w, ps, k) ==
    IF k > Len(ps) THEN delta
    ELSE LET v == ps[k]
         IN  AddDependencies(
                [delta EXCEPT ![v] = RAdd(@, RMul(Rat(sigma[v], sigma[w]),
                                                  RAdd(ROne, delta[w])))],
                sigma, w, ps, k + 1)

\* mutant: the source node takes its own dependency too
RECURSIVE Accumulate_counts_source(_, _, _, _, _)
Accumulate_counts_source(st, s, stack, delta, cen) ==
    IF stack = <<>> THEN cen
    ELSE LET w  == stack[Len(stack)]
             d2 == AddDependencies(delta, st.sigma, w, st.pred[w], 1)
         IN  Accumulate_counts_source(st, s, SubSeq(stack, 1, Len(stack) - 1), d2,
                                      [cen EXCEPT ![w] = RAdd(@, d2[w])])

\* "while let Some(w) = stack.pop_back()": the nodes in reverse order of
\* discovery; every node but the source takes its dependency
RECURSIVE Accumulate(_, _, _, _, _)
Accumulate(st, s, stack, delta, cen) ==
    IF stack = <<>> THEN cen
    ELSE LET w  == stack[Len(stack)]
             d2 == AddDependencies(delta, st.sigma, w, st.pred[w], 1)
         IN  Accumulate(st, s, SubSeq(stack, 1, Len(stack) - 1), d2,
                        IF w # s THEN [cen EXCEPT ![w] = RAdd(@, d2[w])] ELSE cen)

\* centrality(nodes, edges, s): Brandes' single-source run from s
centrality(nds, edges, s) ==
    LET idx == 1..Len(nds)
        st  == BreadthFirst(edges,
                 [dist  |-> VecInsert([i \in idx |-> -1], s, 0),
                  pred  |-> [i \in idx |-> <<>>],
                  sigma |-> [i \in idx |-> IF i = s THEN 1 ELSE 0],
                  queue |-> <<s>>,
                  stack |-> <<>>])
    IN  Accumulate(st, s, st.stack, [i \in idx |-> RZero], [i \in idx |-> RZero])

\* "Aggregate centrality": the per-source results, summed element-wise
RECURSIVE Aggregate(_, _, _, _)
Aggregate(nds, edges, id, acc) ==
    IF id > Len(nds) THEN acc
    ELSE LET p == centrality(nds, edges, id)
         IN  Aggregate(nds, edges, id + 1,
                       [n_idx \in 1..Len(nds) |-> RAdd(acc[n_idx], p[n_idx])])

\* "Track min and max value": both start at 0.0
RECURSIVE TrackMinMax(_, _, _)
TrackMinMax(c, i, mm) ==
    IF i > Len(c) THEN mm
    ELSE TrackMinMax(c, i + 1,
            [min |-> IF RLess(c[i], mm.min) THEN c[i] ELSE mm.min,
             max |-> IF RLess(mm.max, c[i]) THEN c[i] ELSE mm.max])

\* BetweennessCentrality::build: the halved sums by node identity (a
\* repeated identity keeps its last value), the halved min and max
build(g) ==
    LET c  == Aggregate(g.nodes, g.edges, 1, [i \in 1..Len(g.nodes) |-> RZero])
        mm == TrackMinMax(c, 1, [min |-> RZero, max |-> RZero])
    IN  [centrality |->
            [id \in {g.nodes[i] : i \in 1..Len(g.nodes)} |->
                RMul(c[node_to_idx(g.nodes, id)[1]], RHalf)],
         min |-> RMul(mm.min, RHalf),
         max |-> RMul(mm.max, RHalf)]

ScorerPanicked == [kind |-> "panic"]

\* a lookup of a peer the map has no entry for: expect("missing score") in
\* the centrality scorer, sub_scores[i][&n] in the combiner
MissingScore == [kind |-> "missing"]
Scored(m) == [kind |-> "ok", scores |-> m]

\* mutant: the values are shifted by min and not scaled by 1 / (max - min)
get_without_scaling(b, normalize) ==
    IF ~RLess(RZero, RSub(b.max, b.min)) THEN ScorerPanicked
    ELSE Scored([k \in DOMAIN b.centrality |->
                    IF normalize THEN RSub(b.centrality[k], b.min)
                    ELSE b.centrality[k]])

\* BetweennessCentrality::get: assert!(max - min > 0.0), then
\* (v - min) * (1.0 / (max - min)) for every node
get(b, normalize) ==
    IF ~RLess(RZero, RSub(b.max, b.min)) THEN ScorerPanicked
    ELSE LET z == RInv(RSub(b.max, b.min))
         IN  Scored([k \in DOMAIN b.centrality |->
                        IF normalize THEN RMul(RSub(b.centrality[k], b.min), z)
                        ELSE b.centrality[k]])

\* get_node_scores, after build: bc.get(true), then the score of every peer
\* asked for (expect("missing score"))
centrality_get_node_scores(b, peers) ==
    LET c == get(b, TRUE)
    IN  IF c.kind = "panic" THEN c
        ELSE IF \E peer \in peers : peer \notin DOMAIN c.scores THEN MissingScore
        ELSE Scored([peer \in peers |-> c.scores[peer]])

\* largest node list handed to the centrality scorer
MaxBcNodes == 4

\* the channels of a graph without parallel channels and self-loops, in
\* the order of their endpoints
RECURSIVE ChannelsOf(_)
ChannelsOf(E) ==
    IF E = {} THEN <<>>
    ELSE LET e == CHOOSE x \in E : \A y \in E :
                      x[1] < y[1] \/ (x[1] = y[1] /\ x[2] <= y[2])
         IN  <<ChannelInfo(e[1], e[2])>> \o ChannelsOf(E \ {e})

BcInputs ==
    UNION { {[st |-> "input", nodes |-> [i \in 1..n |-> i], channels |-> ChannelsOf(E)] :
               E \in SUBSET {<<a, b>> \in (1..n) \X (1..n) : a < b}}
            : n \in 0..MaxBcNodes }

CentralityInit ==
    /\ AgentParked
    /\ sampler = NoCall
    /\ topo = NoCall
    /\ bc \in BcInputs
    /\ hs = NoCall
    /\ ex = NoCall
    /\ cmp = NoCall

\* get_node_scores, first half: the graph run_once built goes through
\* BetweennessCentrality::build
BcBuild ==
    /\ bc.st = "input"
    /\ bc' = [st |-> "built", nodes |-> bc.nodes, channels |-> bc.channels,
              built |-> build(GraphBuild(bc.nodes, bc.channels))]
    /\ UNCHANGED <<agentVars, sampler, topo, hs, ex, cmp>>

\* get_node_scores, second half: bc.get(true) and the scores of all nodes
BcGet ==
    /\ bc.st = "built"
    /\ bc' = [st |-> "scored", nodes |-> bc.nodes, channels |-> bc.channels,
              built |-> bc.built,
              out |-> centrality_get_node_scores(bc.built,
                        {bc.nodes[i] : i \in 1..Len(bc.nodes)})]
    /\ UNCHANGED <<agentVars, sampler, topo, hs, ex, cmp>>

CentralityNext ==
    \/ BcBuild
    \/ BcGet

CentralitySpec == CentralityInit /\ [][CentralityNext]_vars

\* ------------------------------------------- the heuristics on their own

\* richness.rs: "Determine the minimum size that channel count as positive"
MIN_MEDIAN_CHAN_CAP_FRACTION == 4

\* ChannelInfo with the capacity the richness scorer reads
CapChannel(a, b, cap) == [node1 |-> a, node2 |-> b, capacity |-> cap]

\* chan_caps.sort_unstable()
RECURSIVE SortUnstable(_)
SortUnstable(caps) ==
    IF caps = <<>> THEN <<>>
    ELSE LET i == CHOOSE k \in 1..Len(caps) : \A j \in 1..Len(caps) : caps[k] <= caps[j]
         IN  <<caps[i]>> \o SortUnstable(SubSeq(caps, 1, i - 1) \o SubSeq(caps, i + 1, Len(caps)))

\* chan_caps.get(chan_caps.len() / 2).cloned().unwrap_or_default()
median_cap(chans) ==
    LET chan_caps == SortUnstable([i \in 1..Len(chans) |-> chans[i].capacity])
    IN  IF Len(chan_caps) = 0 THEN 0 ELSE chan_caps[(Len(chan_caps) \div 2) + 1]

\* let neg = c.capacity < median_cap / MIN_MEDIAN_CHAN_CAP_FRACTION, on u128:
\* the division is the integer one
Neg(capacity, median) == capacity < median \div MIN_MEDIAN_CHAN_CAP_FRACTION

\* the count_chan closure: only requested nodes are counted, an entry starts
\* at 0 (or_default)
count_chan(node_chan_num, n, neg, peers) ==
    IF n \in peers
    THEN [k \in DOMAIN node_chan_num \cup {n} |->
             IF k = n
             THEN (IF n \in DOMAIN node_chan_num THEN node_chan_num[n] ELSE 0)
                  + (IF neg THEN -1 ELSE 1)
             ELSE node_chan_num[k]]
    ELSE node_chan_num

\* for c in graph.channels(): both endpoints are counted
RECURSIVE CountChannels(_, _, _, _, _)
CountChannels(chans, i, median, peers, node_chan_num) ==
    IF i > Len(chans) THEN node_chan_num
    ELSE LET neg == Neg(chans[i].capacity, median)
             m1  == count_chan(node_chan_num, chans[i].node1, neg, peers)
             m2  == count_chan(m1, chans[i].node2, neg, peers)
         IN  CountChannels(chans, i + 1, median, peers, m2)

\* a normalisation by the sum of the counts instead of their maximum
RECURSIVE max_chan_num_sums(_)
max_chan_num_sums(node_chan_num) ==
    IF DOMAIN node_chan_num = {} THEN 0
    ELSE LET k == CHOOSE x \in DOMAIN node_chan_num : TRUE
         IN  node_chan_num[k]
             + max_chan_num_sums([x \in DOMAIN node_chan_num \ {k} |-> node_chan_num[x]])

\* node_chan_num.values().max().cloned().unwrap_or_default()
max_chan_num(node_chan_num) ==
    IF DOMAIN node_chan_num = {} THEN 0
    ELSE CHOOSE v \in {node_chan_num[k] : k \in DOMAIN node_chan_num} :
             \A k \in DOMAIN node_chan_num : node_chan_num[k] <= v

\* a richness scorer that answers only for the nodes it has counted
richness_counted_only(chans, peers) ==
    LET m == CountChannels(chans, 1, median_cap(chans), peers, <<>>)
    IN  Scored([id \in DOMAIN m |->
                   IF m[id] > 0 THEN Rat(m[id], max_chan_num(m)) ELSE RZero])

\* richness::get_node_scores
richness_get_node_scores(chans, peers) ==
    LET m == CountChannels(chans, 1, median_cap(chans), peers, <<>>)
    IN  Scored([id \in peers |->
                   LET chan_num == IF id \in DOMAIN m THEN m[id] ELSE 0
                   IN  IF chan_num > 0 THEN Rat(chan_num, max_chan_num(m)) ELSE RZero])

\* the values rng.random_range(0.0..=1.0) is drawn from here: the two ends
RandomVals == {RZero, ROne}

\* random::get_node_scores: one draw for every requested node
random_get_node_scores(draw, peers) == Scored([id \in peers |-> draw[id]])

\* config.rs, HeuristicItem; the weight is an f32, widened to f64 where it is
\* used, which keeps its value
HeuristicItem(h, w) == [heuristic |-> h, weight |-> w]

\* HeuristicConfig::default() first, then lists whose weights sum to 1, to 2
\* and to 0
HeuristicConfigs ==
    { <<HeuristicItem("Centrality", ROne)>>,
      <<HeuristicItem("Richness", ROne)>>,
      <<HeuristicItem("Random", ROne)>>,
      <<HeuristicItem("Centrality", ROne), HeuristicItem("Richness", ROne)>>,
      <<HeuristicItem("Richness", RHalf), HeuristicItem("Random", RHalf)>>,
      <<HeuristicItem("Random", RHalf), HeuristicItem("Random", RHalf)>>,
      <<HeuristicItem("Richness", ROne), HeuristicItem("Richness", ROne)>>,
      <<>> }

\* the match of combine::get_node_scores
HeuristicScores(h, nds, chans, peers, draw) ==
    CASE h = "Centrality" ->
             centrality_get_node_scores(build(GraphBuild(nds, chans)), peers)
      [] h = "Random" -> random_get_node_scores(draw, peers)
      [] h = "Richness" -> richness_get_node_scores(chans, peers)

\* for h in config.heuristics.iter(): every heuristic is called once, in the
\* order of the list; a panic of one of them ends the call
RECURSIVE SubScores(_, _, _, _, _, _, _)
SubScores(cfg, nds, chans, peers, draws, i, sub_scores) ==
    IF i > Len(cfg) THEN [kind |-> "ok", maps |-> sub_scores]
    ELSE LET s == HeuristicScores(cfg[i].heuristic, nds, chans, peers, draws[i])
         IN  IF s.kind # "ok" THEN [kind |-> s.kind, maps |-> sub_scores]
             ELSE SubScores(cfg, nds, chans, peers, draws, i + 1,
                            Append(sub_scores, s.scores))

\* a sum that divides by the total weight
RECURSIVE WeightedSum_renormalized(_, _, _, _, _)
WeightedSum_renormalized(cfg, sub_scores, n, i, s) ==
    IF i > Len(cfg)
    THEN LET RECURSIVE Total(_)
             Total(k) == IF k = 0 THEN RZero ELSE RAdd(Total(k - 1), cfg[k].weight)
         IN  IF Total(Len(cfg)) = RZero THEN s ELSE RMul(s, RInv(Total(Len(cfg))))
    ELSE WeightedSum_renormalized(cfg, sub_scores, n, i + 1,
                                  RAdd(s, RMul(sub_scores[i][n], cfg[i].weight)))

\* the inner loop: s += sub_scores[i][&n] * h.weight as f64
RECURSIVE WeightedSum(_, _, _, _, _)
WeightedSum(cfg, sub_scores, n, i, s) ==
    IF i > Len(cfg) THEN s
    ELSE WeightedSum(cfg, sub_scores, n, i + 1,
                     RAdd(s, RMul(sub_scores[i][n], cfg[i].weight)))

\* combine::get_node_scores: the sub-scores, then for n in nodes the weighted
\* sum; indexing a map with a key it does not hold panics
combine_get_node_scores(cfg, nds, chans, peers, draws) ==
    LET sub == SubScores(cfg, nds, chans, peers, draws, 1, <<>>)
    IN  IF sub.kind # "ok" THEN [kind |-> sub.kind, sub_scores |-> sub.maps]
        ELSE IF \E i \in 1..Len(cfg), n \in peers : n \notin DOMAIN sub.maps[i]
        THEN [kind |-> "missing", sub_scores |-> sub.maps]
        ELSE [kind |-> "ok", sub_scores |-> sub.maps,
              scores |-> [n \in peers |-> WeightedSum(cfg, sub.maps, n, 1, RZero)]]

\* largest graph and channel list handed to the heuristics
MaxHsNodes == 3
MaxHsChannels == 2

\* channel capacities: two small ones and a large one
HsCapacities == {1, 2, 10}

\* the channels between n nodes, lower identity first
HsChannels(n) ==
    {CapChannel(e[1], e[2], cap) :
        e \in {x \in (1..n) \X (1..n) : x[1] < x[2]}, cap \in HsCapacities}

\* one draw per configured heuristic; only the random scorer reads its own
DrawsFor(cfg, peers) ==
    {d \in [1..Len(cfg) -> [peers -> RandomVals]] :
        \A i \in 1..Len(cfg) :
            cfg[i].heuristic # "Random" => d[i] = [p \in peers |-> RZero]}

HeuristicsInit ==
    /\ AgentParked
    /\ sampler = NoCall
    /\ topo = NoCall
    /\ bc = NoCall
    /\ \E n \in 0..MaxHsNodes :
         \E chans \in SeqsUpTo(HsChannels(n), MaxHsChannels),
            peers \in SUBSET (1..n),
            cfg \in HeuristicConfigs :
            \E draws \in DrawsFor(cfg, peers) :
                hs = [st |-> "input", nodes |-> [i \in 1..n |-> i],
                      channels |-> chans, peers |-> peers, config |-> cfg,
                      draws |-> draws]
    /\ ex = NoCall
    /\ cmp = NoCall

\* one call crate::heuristics::get_node_scores(config, graph, nodes)
GetNodeScores ==
    /\ hs.st = "input"
    /\ hs' = [st |-> "scored", nodes |-> hs.nodes, channels |-> hs.channels,
              peers |-> hs.peers, config |-> hs.config, draws |-> hs.draws,
              out |-> combine_get_node_scores(hs.config, hs.nodes, hs.channels,
                                              hs.peers, hs.draws)]
    /\ UNCHANGED <<agentVars, sampler, topo, bc, ex, cmp>>

HeuristicsNext == GetNodeScores

HeuristicsSpec == HeuristicsInit /\ [][HeuristicsNext]_vars

\* ------------------------------------------------ execute on its own

\* tokio::time::sleep(Duration::from_secs(3))
GraceSecs == 3

\* the amounts and address lists of the commands handed to execute
ExecFunds == {0, 30, 40}
ExecAddresses == SeqsUpTo({MultiAddr("a", None), MultiAddr("b", None)}, 2)

\* funding_udt_type_script of OpenChannelParams: None for CKB, the token's
\* script (converted to the RPC's type, which keeps its fields) for a UDT
funding_udt_type_script(token) ==
    IF token.type = "Ckb" THEN None ELSE Some(token.script)

\* OpenChannelParams: the fields execute fills in, the others are None
OpenChannelParams(cmd) ==
    [peer_id |-> cmd.peer, funding_amount |-> cmd.funds,
     funding_udt_type_script |-> funding_udt_type_script(cmd.token)]

ExecuteInit ==
    /\ AgentParked
    /\ sampler = NoCall
    /\ topo = NoCall
    /\ bc = NoCall
    /\ hs = NoCall
    /\ \E p \in Peers, f \in ExecFunds, tok \in {CkbToken, UdtToken},
          addrs \in ExecAddresses :
          ex = [st |-> "input", cmd |-> OpenChannelCmd(p, f, tok, addrs),
                log |-> <<>>]
    /\ cmp = NoCall

\* addresses.first().cloned().ok_or_else(..)?, then the connect_peer request
ExecFirstAddress ==
    /\ ex.st = "input"
    /\ ex' = IF ex.cmd.addresses = <<>>
             THEN [ex EXCEPT !.st = "err", !.log = Append(@, [ev |-> "failed", context |-> "No address"])]
             ELSE [ex EXCEPT !.st = "connecting",
                             !.log = Append(@, [ev |-> "connect_peer",
                                                address |-> ex.cmd.addresses[1]])]
    /\ UNCHANGED <<agentVars, sampler, topo, bc, hs, cmp>>

\* a connect error that is dropped
AfterConnect_ignores_error(ok) == "sleeping"

\* what follows connect_peer's answer ok: the error leaves with context
\* "connect peer", success goes on to the sleep
AfterConnect(ok) == IF ok THEN "sleeping" ELSE "err"

\* source.connect_peer(address).await.context("connect peer")?
ExecConnectReturns ==
    /\ ex.st = "connecting"
    /\ \E ok \in BOOLEAN :
         ex' = [ex EXCEPT !.st = AfterConnect(ok),
                          !.log = Append(@, IF ok THEN [ev |-> "connected"]
                                            ELSE [ev |-> "failed", context |-> "connect peer"])]
    /\ UNCHANGED <<agentVars, sampler, topo, bc, hs, cmp>>

\* the sleep ends, the parameters are built and open_channel is requested
ExecGraceElapsed ==
    /\ ex.st = "sleeping"
    /\ ex' = [ex EXCEPT !.st = "opening",
                        !.log = @ \o <<[ev |-> "slept", secs |-> GraceSecs],
                                       [ev |-> "open_channel",
                                        params |-> OpenChannelParams(ex.cmd)]>>]
    /\ UNCHANGED <<agentVars, sampler, topo, bc, hs, cmp>>

\* source.open_channel(params).await.context("open channel")?, Ok(id)
ExecOpenReturns ==
    /\ ex.st = "opening"
    /\ \E ok \in BOOLEAN :
         ex' = [ex EXCEPT !.st = IF ok THEN "ok" ELSE "err",
                          !.log = Append(@, IF ok THEN [ev |-> "temporary_channel_id"]
                                            ELSE [ev |-> "failed", context |-> "open channel"])]
    /\ UNCHANGED <<agentVars, sampler, topo, bc, hs, cmp>>

ExecuteNext ==
    \/ ExecFirstAddress
    \/ ExecConnectReturns
    \/ ExecGraceElapsed
    \/ ExecOpenReturns

ExecuteSpec == ExecuteInit /\ [][ExecuteNext]_vars

\* ------------------------------------ src/centrality.rs beside its copy

\* src/centrality.rs, the loop of build: every per-source result is added to
\* the sums, and min and max (both from 0.0) are tracked over the values of
\* the per-source results
RECURSIVE AggregateTracking(_, _, _, _)
AggregateTracking(nds, edges, id, acc) ==
    IF id > Len(nds) THEN acc
    ELSE LET p == centrality(nds, edges, id)
         IN  AggregateTracking(nds, edges, id + 1,
                [centrality |-> [n_idx \in 1..Len(nds) |->
                                    RAdd(acc.centrality[n_idx], p[n_idx])],
                 mm |-> TrackMinMax(p, 1, acc.mm)])

\* src/centrality.rs, BetweennessCentrality::build, keyed by the node's
\* public key; the key of the other copy is the peer id derived from it, one
\* for one, and both are the node identity here
centrality_rs_build(g) ==
    LET a == AggregateTracking(g.nodes, g.edges, 1,
                [centrality |-> [i \in 1..Len(g.nodes) |-> RZero],
                 mm |-> [min |-> RZero, max |-> RZero]])
    IN  [centrality |->
            [id \in {g.nodes[i] : i \in 1..Len(g.nodes)} |->
                RMul(a.centrality[node_to_idx(g.nodes, id)[1]], RHalf)],
         min |-> RMul(a.mm.min, RHalf),
         max |-> RMul(a.mm.max, RHalf)]

CompareInit ==
    /\ AgentParked
    /\ sampler = NoCall
    /\ topo = NoCall
    /\ bc = NoCall
    /\ hs = NoCall
    /\ ex = NoCall
    /\ cmp \in BcInputs

\* BetweennessCentrality::build of both files on the same graph
CompareBuild ==
    /\ cmp.st = "input"
    /\ LET g == GraphBuild(cmp.nodes, cmp.channels)
       IN  cmp' = [st |-> "built", nodes |-> cmp.nodes, channels |-> cmp.channels,
                   heuristics_built |-> build(g),
                   centrality_rs_built |-> centrality_rs_build(g)]
    /\ UNCHANGED <<agentVars, sampler, topo, bc, hs, ex>>

\* get(true) of both; the function is the same text in both files
CompareGet ==
    /\ cmp.st = "built"
    /\ cmp' = [st |-> "scored", nodes |-> cmp.nodes, channels |-> cmp.channels,
               heuristics_built |-> cmp.heuristics_built,
               centrality_rs_built |-> cmp.centrality_rs_built,
               heuristics_out |-> get(cmp.heuristics_built, TRUE),
               centrality_rs_out |-> get(cmp.centrality_rs_built, TRUE)]
    /\ UNCHANGED <<agentVars, sampler, topo, bc, hs, ex>>

CompareNext ==
    \/ CompareBuild
    \/ CompareGet

CompareSpec == CompareInit /\ [][CompareNext]_vars

C12_FetchFailureAborts ==
    result = "fetch_error" =>
        /\ pc = "sleep"
        /\ pending = pending_start
        /\ selected = <<>>
        /\ candidates = <<>>
        /\ handles = <<>>

\* C12 witness: the balance query failed after the listing showed a channel
\* with a pending peer, and the peer is still pending
C12_Witness ==
    /\ result = "fetch_error"
    /\ \E c \in local_channels : c.peer_id \in pending

\* -------------------------------------------- centrality scorer, properties

\* are nodes a and b the two endpoints of some channel?
Joined(chans, a, b) ==
    \E k \in DOMAIN chans : {chans[k].node1, chans[k].node2} = {a, b}

\* the walks of len steps from s to t
WalksBetween(n, chans, s, t, len) ==
    {p \in {<<s>> \o mid \o <<t>> : mid \in [1..(len - 1) -> 1..n]} :
        \A i \in 1..len : Joined(chans, p[i], p[i + 1])}

\* the shortest paths from s to t: the walks of the smallest length that has any
ShortestPaths(n, chans, s, t) ==
    LET lens == {len \in 1..(n - 1) : WalksBetween(n, chans, s, t, len) # {}}
    IN  IF lens = {} THEN {}
        ELSE WalksBetween(n, chans, s, t,
                          CHOOSE len \in lens : \A m \in lens : len <= m)

\* the share of the shortest s-t paths that pass through v
PairShare(n, chans, s, t, v) ==
    LET sp == ShortestPaths(n, chans, s, t)
    IN  IF sp = {} THEN RZero
        ELSE Rat(Cardinality({p \in sp : \E i \in 2..(Len(p) - 1) : p[i] = v}),
                 Cardinality(sp))

RECURSIVE SumShares(_, _, _, _)
SumShares(n, chans, v, pairs) ==
    IF pairs = {} THEN RZero
    ELSE LET x == CHOOSE y \in pairs : TRUE
         IN  RAdd(PairShare(n, chans, x[1], x[2], v),
                  SumShares(n, chans, v, pairs \ {x}))

\* betweenness centrality of v, by its definition
Betweenness(n, chans, v) ==
    SumShares(n, chans, v,
              {x \in (1..n) \X (1..n) : x[1] < x[2] /\ x[1] # v /\ x[2] # v})

BcNodeIds == 1..Len(bc.nodes)

\* the scorer returned scores that lie in [0, 1]
ScoresInUnitRange ==
    /\ bc.out.kind = "ok"
    /\ \A v \in BcNodeIds :
          ~RLess(bc.out.scores[v], RZero) /\ ~RLess(ROne, bc.out.scores[v])

\* C13: on a graph whose centralities are all equal, the scorer ends in a
\* typed failure
C13_DegenerateIsTypedFailure ==
    bc.st = "scored"
      /\ bc.nodes # <<>>
      /\ (\A u, v \in BcNodeIds : bc.built.centrality[u] = bc.built.centrality[v])
    => bc.out.kind = "err"

C15_StoredIsBetweenness ==
    bc.st \in {"built", "scored"} =>
        \A v \in BcNodeIds :
            bc.built.centrality[v] = Betweenness(Len(bc.nodes), bc.channels, v)

\* C15 witness: a node lies on one of two shortest paths of a pair and on
\* no other, so that its stored value is one half
C15_Witness ==
    /\ bc.st = "built"
    /\ \E v \in BcNodeIds : bc.built.centrality[v] = RHalf

\* ------------------------------------------------- Graph::build, properties

\* how often x occurs in the list s
Count(s, x) == Cardinality({k \in DOMAIN s : s[k] = x})

\* the channels whose two endpoints are both in the node list
ValidChannels ==
    {k \in DOMAIN topo.channels :
        /\ node_to_idx(topo.nodes, topo.channels[k].node1) # None
        /\ node_to_idx(topo.nodes, topo.channels[k].node2) # None}

RECURSIVE TotalEntries(_, _)
TotalEntries(edges, i) ==
    IF i > Len(edges) THEN 0 ELSE Len(edges[i]) + TotalEntries(edges, i + 1)

\* C16: the adjacency Graph::build produces is symmetric, a channel with a
\* missing endpoint is skipped, and counted, once, every other channel gives
\* each endpoint one entry naming the other, and nothing else is an entry
C16_AdjacencySymmetric ==
    topo.st = "built" =>
        LET idx == 1..Len(topo.nodes)
        IN  /\ \A i, j \in idx : Count(topo.edges[i], j) = Count(topo.edges[j], i)
            /\ topo.skip_channel_num
                 = Cardinality(DOMAIN topo.channels \ ValidChannels)
            /\ TotalEntries(topo.edges, 1) = 2 * Cardinality(ValidChannels)
            /\ \A i, j \in idx :
                  Count(topo.edges[i], j)
                    = (IF i = j THEN 2 ELSE 1)
                        * Cardinality({k \in ValidChannels :
                            {node_to_idx(topo.nodes, topo.channels[k].node1)[1],
                             node_to_idx(topo.nodes, topo.channels[k].node2)[1]}
                              = {i, j}})

\* C16 witness: of two channels, one has no endpoint in the node list and is
\* the one skipped, the other joins two different nodes
C16_Witness ==
    /\ topo.st = "built"
    /\ topo.skip_channel_num = 1
    /\ \E k \in DOMAIN topo.channels :
          /\ node_to_idx(topo.nodes, topo.channels[k].node1) = None
          /\ node_to_idx(topo.nodes, topo.channels[k].node2) = None
    /\ \E i, j \in 1..Len(topo.nodes) :
          i # j /\ Count(topo.edges[i], j) = 1 /\ Count(topo.edges[j], i) = 1

\* ------------------------------------------------------ choice_n, properties

\* the number of items of positive weight
PositiveItems == Cardinality({i \in DOMAIN sampler.items : sampler.items[i][2] > 0})

\* C17: with at least n items, choice_n returns n items from pairwise
\* distinct positions of its input
C17_ReturnsNDistinct ==
    sampler.st = "done" /\ Len(sampler.items) >= sampler.n =>
        /\ ~sampler.out.panic
        /\ Len(sampler.out.items) = sampler.n
        /\ \A k \in 1..Len(sampler.out.items) :
              /\ sampler.out.items[k][1] \in DOMAIN sampler.items
              /\ sampler.out.items[k] = sampler.items[sampler.out.items[k][1]]
        /\ \A j, k \in 1..Len(sampler.out.items) :
              sampler.out.items[j][1] = sampler.out.items[k][1] => j = k

\* C18: with fewer than n items, choice_n returns its input
C18_FewerThanNReturnsAll ==
    sampler.st = "done" /\ Len(sampler.items) < sampler.n =>
        sampler.out = Returned(sampler.items)

\* C18 witness: a non-empty list of zero-weight items, shorter than n, came
\* back as it was
C18_Witness ==
    /\ sampler.st = "done"
    /\ sampler.items # <<>>
    /\ Len(sampler.items) < sampler.n
    /\ PositiveItems = 0
    /\ sampler.out = Returned(sampler.items)

\* C19: no draw takes an item whose weight is zero at the time of the draw
\* (zero from the start, or zeroed by an earlier draw) while an item of
\* positive weight is left
C19_ZeroWeightNeverDrawn ==
    sampler.st = "done" /\ Len(sampler.items) >= sampler.n /\ ~sampler.out.panic =>
        \A k \in 1..Len(sampler.out.items) :
            LET drawn == {sampler.out.items[j][1] : j \in 1..(k - 1)}
                left  == {i \in DOMAIN sampler.items :
                             i \notin drawn /\ sampler.items[i][2] > 0}
            IN  left # {} => sampler.out.items[k][1] \in left

\* C19 witness: one item was drawn from a list with a zero-weight item
C19_Witness ==
    /\ sampler.st = "done"
    /\ ~sampler.out.panic
    /\ sampler.n = 1
    /\ Len(sampler.out.items) = 1
    /\ \E i \in DOMAIN sampler.items : sampler.items[i][2] = 0

\* C20: when the weights are all zero, or fewer than n items have a positive
\* weight, choice_n still returns n items
C20_ZeroWeightsWellDefined ==
    sampler.st = "done"
      /\ sampler.items # <<>>
      /\ Len(sampler.items) >= sampler.n
      /\ (PositiveItems = 0 \/ PositiveItems < sampler.n)
    => ~sampler.out.panic /\ Len(sampler.out.items) = sampler.n

\* ------------------------------------------------ the agent, further claims

\* the peers of the actions that returned a temporary channel id
SucceededPeers ==
    {handles[i].cmd.peer : i \in {j \in 1..Len(handles) : handles[j].st = "ok"}}

\* C24: a pending peer leaves pending only when the listing of a cycle start
\* shows a channel with it or when its own action of this cycle is resolved
\* as failed, never by the passing of time; and a cycle that finds
\* max_pending peers still pending spawns no action
C24_PendingNeverExpires ==
    /\ [](OpenRan /\ Cardinality(PendingReconciled) >= config.max_pending
            => handles = <<>>)
    /\ [][\A p \in pending :
             p \notin pending' =>
                \/ pc = "idle" /\ \E c \in local_channels' : c.peer_id = p
                \/ /\ pc = "open"
                   /\ ri <= Len(handles)
                   /\ ri' = ri + 1
                   /\ handles[ri].cmd.peer = p
                   /\ handles[ri].st # "ok"]_vars

\* C24 witness: a later cycle found max_pending peers pending, none of them
\* listed, and ended without an action and with the same peers pending
C24_Witness ==
    /\ pc = "sleep"
    /\ result = "ok"
    /\ handles = <<>>
    /\ pending # {}
    /\ pending = pending_start
    /\ Cardinality(pending) = config.max_pending

\* C25: when the cycle has ended every action it spawned is finished and
\* pending holds, besides what was pending before, only peers whose action
\* succeeded; and nothing changes pending between the cycles
C25_CycleJoinsItsActions ==
    /\ [](pc = "sleep" =>
            /\ \A i \in 1..Len(handles) : handles[i].st \in Finished
            /\ pending \subseteq pending_start \cup SucceededPeers)
    /\ [][pc = "sleep" => pending' = pending]_vars

\* C25 witness: a cycle has ended whose first action succeeded and whose
\* second action failed at open_channel
C25_Witness ==
    /\ pc = "sleep"
    /\ Len(handles) = 2
    /\ handles[1].st = "ok"
    /\ handles[2].st = "open_error"
    /\ handles[1].cmd.peer \in pending

\* C26: a peer that the reconciliation took out of pending has a listed
\* channel in the agent's asset type
C26_ConfirmedBySameAsset ==
    OpenRan => \A p \in pending_start \ PendingReconciled : SameAssetChannel(p)

\* C27: a cycle that spawned actions ends with no more listed channels and
\* pending peers together than max_chan_num
C27_InFlightWithinMaxChanNum ==
    pc = "sleep" /\ handles # <<>> =>
        Cardinality(local_channels) + Cardinality(pending) <= config.max_chan_num

\* C28: an action that reached open_channel towards a peer taken from the
\* graph carries at least the minimum funding amount the peer advertises
C28_FundsMeetPeerMinimum ==
    \A i \in 1..Len(handles) :
        handles[i].st \in {"ok", "open_error"} /\ handles[i].cmd.peer \in nodes =>
            handles[i].cmd.funds
              >= get_min_funding_amount(config.token, graph[handles[i].cmd.peer][1])[1]

\* C29: the funds of the first i funded commands never exceed the balance
\* read at the start of the cycle, for every i (the budget left is never
\* negative)
C29_FundedWithinBudget ==
    OpenRan => \A i \in 1..(Len(candidates) + 1) : FundedBefore(i) <= available_funds

\* C29 witness: two or more commands are funded and they use up the balance
C29_Witness ==
    /\ pc = "open"
    /\ Len(candidates) >= 2
    /\ FundedBefore(Len(candidates) + 1) = available_funds

\* C30: no peer is scored, selected or funded twice in a cycle, and at the
\* cycle's end every funded command has its own action
C30_OneActionPerFundedPeer ==
    OpenRan =>
        /\ \A i, j \in 1..Len(scores) : scores[i][1] = scores[j][1] => i = j
        /\ \A i, j \in 1..Len(selected) : selected[i][1] = selected[j][1] => i = j
        /\ \A i, j \in 1..Len(candidates) :
              candidates[i].peer = candidates[j].peer => i = j
        /\ pc = "sleep" /\ result = "ok" => Len(handles) = Len(candidates)


\* ------------------------------------------ the heuristics, their claims

\* what the heuristic configured at position i answers on its own for the
\* call's graph and peer set
RawScores(i) ==
    HeuristicScores(hs.config[i].heuristic, hs.nodes, hs.channels, hs.peers,
                    hs.draws[i])

\* the sum over the configured positions in I of weight * score for peer n
RECURSIVE SumOfProducts(_, _)
SumOfProducts(I, n) ==
    IF I = {} THEN RZero
    ELSE LET i == CHOOSE x \in I : TRUE
         IN  RAdd(RMul(hs.config[i].weight, RawScores(i).scores[n]),
                  SumOfProducts(I \ {i}, n))

\* C21: what the combiner returns holds, for every requested peer, the sum
\* over the configured (heuristic, weight) pairs of weight * score, each
\* heuristic asked once for the same peer set and the weights taken as they
\* are; one heuristic at weight 1.0 gives that heuristic's raw score
C21_CombinerWeightedSum ==
    hs.st = "scored" /\ hs.out.kind = "ok" =>
        /\ Len(hs.out.sub_scores) = Len(hs.config)
        /\ \A i \in 1..Len(hs.config) : hs.out.sub_scores[i] = RawScores(i).scores
        /\ \A n \in hs.peers :
              /\ hs.out.scores[n] = SumOfProducts(1..Len(hs.config), n)
              /\ Len(hs.config) = 1 /\ hs.config[1].weight = ROne =>
                     hs.out.scores[n] = RawScores(1).scores[n]

\* two heuristics at weight 1.0 each: a peer's combined score is 2
C21_Witness ==
    /\ hs.st = "scored"
    /\ hs.out.kind = "ok"
    /\ Len(hs.config) = 2
    /\ hs.config[1].weight = ROne
    /\ hs.config[2].weight = ROne
    /\ \E n \in hs.peers : hs.out.scores[n] = Rat(2, 1)

\* the net channel count of peer p with the floor at a quarter of the median
QuarterFloorNet(p) ==
    LET median == median_cap(hs.channels)
        RECURSIVE Net(_)
        Net(i) ==
            IF i = 0 THEN 0
            ELSE LET c == hs.channels[i]
                     d == IF 4 * c.capacity < median THEN -1 ELSE 1
                 IN  Net(i - 1) + (IF c.node1 = p THEN d ELSE 0)
                                + (IF c.node2 = p THEN d ELSE 0)
    IN  Net(Len(hs.channels))

\* the requested peers that have a channel
HasChannel(p) ==
    \E i \in 1..Len(hs.channels) : p \in {hs.channels[i].node1, hs.channels[i].node2}

\* C22: the richness score of a requested peer is its net channel count, +1
\* for a channel at or above a quarter of the median capacity and -1 for
\* one below, over the largest net count; 0 without a positive count
C22_QuarterOfMedianFloor ==
    hs.st = "scored" /\ hs.config = <<HeuristicItem("Richness", ROne)>> =>
        \A p \in hs.peers :
            hs.out.scores[p] =
                IF QuarterFloorNet(p) > 0
                THEN Rat(QuarterFloorNet(p),
                         CHOOSE v \in {QuarterFloorNet(q) : q \in {r \in hs.peers : HasChannel(r)}} :
                             \A q \in {r \in hs.peers : HasChannel(r)} : QuarterFloorNet(q) <= v)
                ELSE RZero

\* C23: no lookup of a requested peer fails, neither the centrality scorer's
\* nor the combiner's; every heuristic's map and the combined map have
\* exactly the requested peers as keys
C23_EveryPeerHasEntry ==
    hs.st = "scored" =>
        /\ hs.out.kind # "missing"
        /\ \A i \in 1..Len(hs.out.sub_scores) : DOMAIN hs.out.sub_scores[i] = hs.peers
        /\ hs.out.kind = "ok" => DOMAIN hs.out.scores = hs.peers

\* centrality and richness combined for some, not all, of the graph's nodes
C23_Witness ==
    /\ hs.st = "scored"
    /\ hs.out.kind = "ok"
    /\ Len(hs.config) = 2
    /\ hs.config[1].heuristic = "Centrality"
    /\ hs.peers # {}
    /\ \E i \in 1..Len(hs.nodes) : hs.nodes[i] \notin hs.peers
    /\ DOMAIN hs.out.scores = hs.peers


\* ---------------------------------------------------- execute, its claim

\* the positions of the call's log holding event e
LogAt(e) == {k \in 1..Len(ex.log) : ex.log[k].ev = e}

\* C31: open_channel is requested only after connect_peer to the first
\* address of the command has answered with success and the grace period
\* has passed; without an address, or after a failed connect_peer, it is
\* never requested and the call ends in an error
C31_OpenAfterConnectAndGrace ==
    ex.st # "none" =>
        /\ \A k \in LogAt("open_channel") :
              /\ k = 4
              /\ ex.log[1] = [ev |-> "connect_peer", address |-> ex.cmd.addresses[1]]
              /\ ex.log[2] = [ev |-> "connected"]
              /\ ex.log[3] = [ev |-> "slept", secs |-> GraceSecs]
        /\ (ex.st # "input" /\ ex.cmd.addresses = <<>>) \/
           (\E k \in LogAt("failed") : ex.log[k].context = "connect peer") =>
              /\ LogAt("open_channel") = {}
              /\ LogAt("connect_peer") \subseteq {1}
              /\ ex.st = "err"

\* a command with two different addresses: the first was connected, the
\* channel was opened
C31_Witness ==
    /\ ex.st = "ok"
    /\ Len(ex.cmd.addresses) = 2
    /\ ex.cmd.addresses[1] # ex.cmd.addresses[2]
    /\ LogAt("open_channel") = {4}


\* --------------------------------------------- richness, its range claim

\* the channel ends at peer p that count positively (neg = FALSE) or
\* negatively (neg = TRUE) with the scorer's floor
ChannelEnds(p, neg) ==
    {e \in (1..Len(hs.channels)) \X {1, 2} :
        /\ p = (IF e[2] = 1 THEN hs.channels[e[1]].node1 ELSE hs.channels[e[1]].node2)
        /\ Neg(hs.channels[e[1]].capacity, median_cap(hs.channels)) = neg}

\* the net channel count of peer p
NetCount(p) == Cardinality(ChannelEnds(p, FALSE)) - Cardinality(ChannelEnds(p, TRUE))

\* the positions of the heuristic list that hold the richness scorer
RichnessAt == {i \in 1..Len(hs.out.sub_scores) : hs.config[i].heuristic = "Richness"}

\* C32: every richness score is a number in [0, 1] (no division by zero
\* behind it); a requested peer with a net count of 0 or less scores 0;
\* when some requested peer has a positive net count, the requested peers
\* with the largest net count score 1
C32_RichnessInUnitRange ==
    hs.st = "scored" =>
        \A i \in RichnessAt : \A p \in hs.peers :
            LET score == hs.out.sub_scores[i][p]
            IN  /\ score[2] > 0
                /\ ~RLess(score, RZero)
                /\ ~RLess(ROne, score)
                /\ NetCount(p) <= 0 => score = RZero
                /\ NetCount(p) > 0 /\ (\A q \in hs.peers : NetCount(q) <= NetCount(p))
                      => score = ROne

\* a peer at the largest net count beside one at half of it and one whose
\* channels leave it no positive count
C32_Witness ==
    /\ hs.st = "scored"
    /\ hs.config = <<HeuristicItem("Richness", ROne)>>
    /\ \E p, q \in hs.peers :
          /\ hs.out.scores[p] = ROne
          /\ hs.out.scores[q] = RHalf
          /\ NetCount(p) = 2
          /\ NetCount(q) = 1


\* ------------------------------------------- Graph::build, its frame claim

\* Graph::build of the call's arguments has a value: the lists as given and
\* one adjacency list per node entry, each entry of it a node position
BuildAnswers ==
    LET g == GraphBuild(topo.nodes, topo.channels)
    IN  /\ g.nodes = topo.nodes
        /\ g.channels = topo.channels
        /\ DOMAIN g.edges = DOMAIN topo.nodes
        /\ \A n_idx \in DOMAIN g.edges : \A k \in DOMAIN g.edges[n_idx] :
               g.edges[n_idx][k] \in DOMAIN topo.nodes

\* C33: Graph::build answers for every input, and the graph it returns holds
\* the node list and the channel list it was given, unchanged and in order,
\* skipped channels included, with one adjacency list per node entry
C33_BuildTotalKeepsLists ==
    /\ [](topo.st = "input" => BuildAnswers)
    /\ [][topo.st = "input" =>
            /\ topo'.st = "built"
            /\ topo'.nodes = topo.nodes
            /\ topo'.channels = topo.channels
            /\ DOMAIN topo'.edges = DOMAIN topo.nodes]_vars

\* a node list naming one identity twice, a self-loop channel and a channel
\* with an unknown endpoint: the graph is built, the skipped channel is still
\* in channels()
C33_Witness ==
    /\ topo.st = "built"
    /\ Len(topo.nodes) = 2
    /\ topo.nodes[1] = topo.nodes[2]
    /\ Len(topo.channels) = 2
    /\ topo.skip_channel_num = 1
    /\ \E i \in 1..2 : /\ topo.channels[i].node1 = topo.channels[i].node2
                       /\ topo.channels[i].node1 = topo.nodes[1]
    /\ \E i \in 1..2 : node_to_idx(topo.nodes, topo.channels[i].node2) = None


\* ------------------------------------- the two copies of the centrality

\* C34: for every graph the two BetweennessCentrality implementations hold
\* the same un-normalized values, the same min and the same max, and give
\* the same normalized scores
C34_CopiesEquivalent ==
    /\ cmp.st \in {"built", "scored"} =>
          /\ cmp.centrality_rs_built.centrality = cmp.heuristics_built.centrality
          /\ cmp.centrality_rs_built.min = cmp.heuristics_built.min
          /\ cmp.centrality_rs_built.max = cmp.heuristics_built.max
    /\ cmp.st = "scored" => cmp.centrality_rs_out = cmp.heuristics_out

====
